---------------------------- MODULE Spec2Model ----------------------------
(***************************************************************************)
(* Relay provisioning and recovery of ockam_api's node manager             *)
(* (nodes/service/forwarder.rs): the CreateForwarder handler, the address  *)
(* resolver `connect`, and the replacement procedure armed by              *)
(* `enable_recovery` with `replace_sec_chan`.                              *)
(*                                                                         *)
(* Option<T> is a sequence: None is <<>> and Some(x) is <<x>>.  A MultiAddr *)
(* is a sequence of segments [code, val]; a Route is a sequence of         *)
(* addresses [tt, a].  Every await of the source is the boundary between   *)
(* two actions; the outcome of an exchange with another worker or node is  *)
(* chosen by the action that receives its response.                        *)
(*                                                                         *)
(* Requests are those that decoded (line 39).  Casting a segment whose     *)
(* code was just tested (lines 104-106, 215-217), extending an address by  *)
(* segments of another (lines 111, 220) and encoding a request or response *)
(* to a byte vector do not fail on the values modelled here.               *)
(***************************************************************************)
EXTENDS Naturals, Sequences, FiniteSets

VARIABLES
    cf,        \* the CreateForwarder handler: position, request, connect's result, requests issued, result
    sessions,  \* NodeManager.sessions: the registry, in insertion order
    channels,  \* local addresses of the secure channels the manager holds
    nchan,     \* number of secure channels created so far (names the next one)
    rec,       \* rec[k]: the replacement procedure of sessions[k] (one invocation at a time)
    relays,    \* relay registrations held by the remote forwarding service
    nreq       \* CreateForwarder requests received

vars == <<cf, sessions, channels, nchan, rec, relays, nreq>>

---------------------------------------------------------------------------
(* Bounds of the model: the requests the handler receives, and the        *)
(* invocations of replacement procedures, all sessions together.          *)

MaxRequests == 1
MaxRecoveries == 2

(* Program constants. *)

MAX_RECOVERY_TIME == 10
MAX_CONNECT_TIME == 5
IDENTITY == "authorized_identity"

---------------------------------------------------------------------------
(* Data. *)

None == <<>>
Some(x) == <<x>>

Seg(c, v) == [code |-> c, val |-> v]
Local(n) == [tt |-> "LOCAL", a |-> <<n>>]
Tcp(h, p) == [tt |-> "TCP", a |-> <<h, p>>]

HostCodes == {"dnsaddr", "ip4", "ip6"}

ChanNames == <<"ch1", "ch2", "ch3", "ch4", "ch5", "ch6", "ch7", "ch8">>

(* The routing addresses requests are drawn from. *)
A_EMPTY == <<>>
A_SEC == <<Seg("dnsaddr", "example.org"), Seg("tcp", "4000"), Seg("secure", "api")>>
A_SEC_IP == <<Seg("ip4", "10.0.0.5"), Seg("tcp", "4000"), Seg("secure", "api"), Seg("service", "fwd")>>
A_PASS == <<Seg("dnsaddr", "10.0.0.5"), Seg("tcp", "3000")>>
A_SVC == <<Seg("service", "forwarding")>>
A_TCP_SEC == <<Seg("tcp", "4000"), Seg("secure", "api")>>
A_PROJ == <<Seg("project", "acme"), Seg("service", "forwarding")>>
A_PROJ_ONLY == <<Seg("project", "acme")>>
A_PROJ_BAD == <<Seg("project", "acme"), Seg("project", "other")>>
A_SEC_BAD == <<Seg("ip6", "::1"), Seg("tcp", "4000"), Seg("secure", "api"), Seg("project", "acme")>>

Addresses ==
    {A_EMPTY, A_SEC, A_SEC_IP, A_PASS, A_SVC, A_TCP_SEC, A_PROJ, A_PROJ_ONLY, A_PROJ_BAD, A_SEC_BAD}

CLOUD == <<Seg("dnsaddr", "cloud"), Seg("tcp", "4000")>>

Requests ==
    [address : Addresses,
     alias : {None, Some("al")},
     at_rust_node : BOOLEAN,
     authorized : {None, Some("ID1")},
     cloud_addr : {None, Some(CLOUD)}]

(* What the project directory may answer: the exchange fails, a non-OK  *)
(* status, a project without identity, or a project's route and identity. *)
P_ROUTE == <<Seg("dnsaddr", "acme.cloud"), Seg("tcp", "4001")>>
P_ROUTE2 == <<Seg("dnsaddr", "acme2.cloud"), Seg("tcp", "4002")>>

ProjectResponses ==
    {[st |-> "err", addr |-> <<>>, id |-> None],
     [st |-> "notok", addr |-> <<>>, id |-> None],
     [st |-> "ok", addr |-> P_ROUTE, id |-> None],
     [st |-> "ok", addr |-> P_ROUTE, id |-> Some("ID9")],
     [st |-> "ok", addr |-> P_ROUTE2, id |-> Some("ID8")]}

---------------------------------------------------------------------------
(* Address helpers of the crate (lib.rs, ockam_multiaddr). *)

first(ma) == IF Len(ma) = 0 THEN None ELSE Some(ma[1])

IsProject(ma) == first(ma) # None /\ first(ma)[1].code = "project"

(* MultiAddr::matches(0, [any(DnsAddr, Ip4, Ip6), Tcp, Secure]) *)
matches(ma) ==
    /\ Len(ma) >= 3
    /\ ma[1].code \in HostCodes
    /\ ma[2].code = "tcp"
    /\ ma[3].code = "secure"

(* iter().skip(1) *)
skip1(ma) == IF Len(ma) = 0 THEN <<>> ELSE Tail(ma)

RECURSIVE multiaddr_to_route(_)
multiaddr_to_route(ma) ==
    IF Len(ma) = 0 THEN Some(<<>>)
    ELSE LET p == ma[1] IN
         IF p.code \in HostCodes
         THEN IF Len(ma) >= 2 /\ ma[2].code = "tcp"
              THEN LET rest == multiaddr_to_route(SubSeq(ma, 3, Len(ma)))
                   IN IF rest = None THEN None
                      ELSE Some(<<Tcp(p.val, ma[2].val)>> \o rest[1])
              ELSE None
         ELSE IF p.code \in {"service", "secure"}
         THEN LET rest == multiaddr_to_route(Tail(ma))
              IN IF rest = None THEN None ELSE Some(<<Local(p.val)>> \o rest[1])
         ELSE None

multiaddr_to_addr(ma) ==
    IF Len(ma) = 0 THEN None
    ELSE IF ma[1].code \in {"service", "secure"} THEN Some(Local(ma[1].val))
    ELSE IF ma[1].code \in HostCodes /\ Len(ma) >= 2 /\ ma[2].code = "tcp"
         THEN Some(Tcp(ma[1].val, ma[2].val))
    ELSE None

try_address_to_multiaddr(a) ==
    IF a.tt = "LOCAL" THEN Some(<<Seg("service", a.a[1])>>)
    ELSE Some(<<Seg("dnsaddr", a.a[1]), Seg("tcp", a.a[2])>>)

(* project_data: the (address, identity) of a directory response. *)
project_data(resp) ==
    IF resp.st # "ok" THEN None
    ELSE IF resp.id = None THEN None
    ELSE Some([addr |-> resp.addr, id |-> resp.id[1]])

---------------------------------------------------------------------------
(* Requests issued to other workers and nodes, as recorded in order. *)

Ev(op, ma, route, auth, alias, tmo) ==
    [op |-> op, ma |-> ma, route |-> route, auth |-> auth, alias |-> alias, timeout |-> tmo]

(* get_project / GET /v0/projects/{project} with the cloud address as body *)
GetProjectEv(project, cloud) == Ev("get_project", cloud, <<>>, None, Some(project), None)
(* create_secure_channel_impl(route, auth, Oneway, timeout) / POST /node/secure_channel *)
CreateChanEv(ma, route, auth, tmo) == Ev("create_secure_channel", ma, route, auth, None, tmo)
(* DELETE /node/secure_channel for a channel's local address *)
DeleteChanEv(a) == Ev("delete_secure_channel", <<>>, <<a>>, None, None, None)
(* RemoteForwarder::create, create_static, create_static_without_heartbeats *)
RelayEv(kind, route, alias) == Ev(kind, <<>>, route, None, alias, None)

(* Option::map(|i| vec![i]) *)
vec(o) == IF o = None THEN None ELSE Some(<<o[1]>>)

RelayKinds == {"create", "create_static", "create_static_without_heartbeats"}

Ops(ev) == {ev[i].op : i \in 1..Len(ev)}
Count(ev, S) == Cardinality({i \in 1..Len(ev) : ev[i].op \in S})

---------------------------------------------------------------------------
(* The CreateForwarder handler. *)

NoReq ==
    [address |-> <<>>, alias |-> None, at_rust_node |-> FALSE,
     authorized |-> None, cloud_addr |-> None]
Pending == [st |-> "pending", addr |-> <<>>, msg |-> ""]
NoRes == [kind |-> "none", status |-> "", body |-> ""]

(* f: the RemoteForwarder constructor's result, "" while there is none, "ok", or its error. *)
Idle ==
    [pc |-> "idle", req |-> NoReq, conn |-> Pending, ev |-> <<>>, res |-> NoRes, f |-> ""]

(* What a RemoteForwarder constructor may return: Ok, or one of its errors. *)
RelayErrors == {"relay refused", "relay unreachable"}
RelayResults == {"ok"} \cup RelayErrors

(* `?` in create_forwarder: the handler itself fails. *)
HardErr(h, msg) == [h EXCEPT !.pc = "done", !.res = [kind |-> "err", status |-> "", body |-> msg]]

(* connect returns Err(msg). *)
ConnectErr(h, msg) == HardErr([h EXCEPT !.conn = [st |-> "err", addr |-> <<>>, msg |-> msg]], msg)

(* A choice of constructor that pings whenever an alias is given. *)
RelayKind_AlwaysHeartbeats(req) == IF req.alias # None THEN "create_static" ELSE "create"

(* Which RemoteForwarder constructor lines 47-58 call. *)
RelayKind(req) ==
    IF req.at_rust_node
    THEN IF req.alias # None THEN "create_static_without_heartbeats" ELSE "create"
    ELSE IF req.alias # None THEN "create_static" ELSE "create"

(* Lines 43-58 once connect has returned Ok(addr): the route, then the  *)
(* relay-creation request, whose answer is awaited.                     *)
Provision(h, addr) ==
    LET h1 == [h EXCEPT !.conn = [st |-> "ok", addr |-> addr, msg |-> ""]]
        r == multiaddr_to_route(addr)
    IN  IF r = None THEN HardErr(h1, "invalid address: {addr}")
        ELSE [h1 EXCEPT !.pc = "relay",
                        !.ev = Append(@, RelayEv(RelayKind(h.req), r[1], h.req.alias))]

(* A connect that asks a default directory when no cloud address is given. *)
ConnectProject_DefaultCloud(h) ==
    [h EXCEPT !.pc = "resolve",
              !.ev = Append(@, GetProjectEv(h.req.address[1].val,
                                            IF h.req.cloud_addr = None THEN CLOUD
                                            ELSE h.req.cloud_addr[1]))]

(* connect, lines 104-110: the address starts with a project reference. *)
ConnectProject(h) ==
    IF h.req.cloud_addr = None
    THEN ConnectErr(h, "request has no cloud address")
    ELSE [h EXCEPT !.pc = "resolve",
                   !.ev = Append(@, GetProjectEv(h.req.address[1].val, h.req.cloud_addr[1]))]

(* connect, lines 129-134: the address matches [host, tcp, secure]. *)
ConnectSecure(h) ==
    LET r == multiaddr_to_route(h.req.address) IN
    IF r = None THEN ConnectErr(h, "invalid multiaddr")
    ELSE [h EXCEPT !.pc = "channel",
                   !.ev = Append(@, CreateChanEv(h.req.address, r[1], vec(h.req.authorized), None))]

(* A connect that takes [host, tcp] for the pattern. *)
connect_LoosePattern(h) ==
    LET addr == h.req.address IN
    IF IsProject(addr) THEN ConnectProject(h)
    ELSE IF Len(addr) >= 2 /\ addr[1].code \in HostCodes /\ addr[2].code = "tcp"
    THEN ConnectSecure(h)
    ELSE Provision(h, addr)

(* A connect that resolves a project only when a cloud address is given. *)
connect_CloudOptional(h) ==
    LET addr == h.req.address IN
    IF IsProject(addr) /\ h.req.cloud_addr # None THEN ConnectProject(h)
    ELSE IF matches(addr) THEN ConnectSecure(h)
    ELSE Provision(h, addr)

(* A connect that creates no channel for a request with at_rust_node set. *)
connect_SkipsAtRustNode(h) ==
    LET addr == h.req.address IN
    IF h.req.at_rust_node THEN Provision(h, addr)
    ELSE IF IsProject(addr) THEN ConnectProject(h)
    ELSE IF matches(addr) THEN ConnectSecure(h)
    ELSE Provision(h, addr)

(* connect up to its first await. *)
connect(h) ==
    LET addr == h.req.address IN
    IF IsProject(addr) THEN ConnectProject(h)
    ELSE IF matches(addr) THEN ConnectSecure(h)
    ELSE Provision(h, addr)

(* connect, lines 110-117: the directory has answered. *)
connect_resolved(h, resp) ==
    LET pd == project_data(resp) IN
    IF pd = None
    THEN ConnectErr(h, IF resp.st = "err" THEN "get_project failed"
                       ELSE IF resp.st = "notok" THEN "failed to get project info"
                       ELSE "project has no identity")
    ELSE LET a == pd[1].addr \o skip1(h.req.address)
             r == multiaddr_to_route(a)
         IN  IF r = None THEN ConnectErr(h, "invalid multiaddr")
             ELSE [h EXCEPT !.pc = "channel",
                            !.ev = Append(@, CreateChanEv(a, r[1], vec(Some(pd[1].id)), None))]

(* Session::new(addr): the resolved address, an empty store, no replacement. *)
Session_new(addr) ==
    [addr |-> addr, store |-> {},
     repl |-> [addr |-> <<>>, cloud |-> None, alias |-> None, auth |-> None]]

(* Session::put and Session::get on the session's key-value store. *)
put(s, key, v) == [s EXCEPT !.store = {p \in @ : p[1] # key} \cup {<<key, v>>}]
get(s, key) ==
    IF \E p \in s.store : p[1] = key
    THEN Some((CHOOSE p \in s.store : p[1] = key)[2])
    ELSE None

(* Configure the session for automatic recovery: what the replacement    *)
(* closure captures by value (lines 202-209).                            *)
enable_recovery(s, addr, cloud, alias) ==
    [s EXCEPT !.repl = [addr |-> addr, cloud |-> cloud, alias |-> alias,
                        auth |-> get(s, IDENTITY)]]

(* A session constructed with the request's address. *)
NewSession_OriginalAddress(h) ==
    LET s0 == Session_new(h.req.address)
        s1 == IF h.req.authorized # None THEN put(s0, IDENTITY, h.req.authorized[1]) ELSE s0
    IN  enable_recovery(s1, h.req.address, h.req.cloud_addr, h.req.alias)

(* A session that stores the identity its channel was authorized for. *)
NewSession_ChannelIdentity(h) ==
    LET s0 == Session_new(h.conn.addr)
        cr == {i \in 1..Len(h.ev) : h.ev[i].op = "create_secure_channel"}
        au == IF cr = {} THEN None ELSE h.ev[CHOOSE i \in cr : TRUE].auth
        s1 == IF au # None THEN put(s0, IDENTITY, au[1][1]) ELSE s0
    IN  enable_recovery(s1, h.req.address, h.req.cloud_addr, h.req.alias)

(* Lines 61-75: the session of a request whose relay was created. *)
NewSession(h) ==
    LET s0 == Session_new(h.conn.addr)
        s1 == IF h.req.authorized # None THEN put(s0, IDENTITY, h.req.authorized[1]) ELSE s0
    IN  enable_recovery(s1, h.req.address, h.req.cloud_addr, h.req.alias)

(* Sessions::add *)
add(reg, s) == Append(reg, s)

(* A registration that does not read at_rust_node. *)
RegistersSession_AnyPath(req, f_ok, clone_ok) == f_ok /\ clone_ok

(* A registration made before the relay's result is looked at. *)
RegistersSession_BeforeRelay(req, f_ok, clone_ok) == ~req.at_rust_node /\ clone_ok

(* Whether lines 59-77 register a session: the relay was created on the  *)
(* channel path and the context could be cloned.                         *)
RegistersSession(req, f_ok, clone_ok) == ~req.at_rust_node /\ f_ok /\ clone_ok

(* A handler that propagates the relay's error with `?`. *)
Respond_Propagating(h, f) ==
    IF f = "ok"
    THEN [h EXCEPT !.pc = "done", !.f = f,
                   !.res = [kind |-> "response", status |-> "Ok", body |-> "ForwarderInfo"]]
    ELSE HardErr([h EXCEPT !.f = f], f)

(* The response of lines 81-97. *)
Respond(h, f) ==
    [h EXCEPT !.pc = "done", !.f = f,
              !.res = IF f = "ok" THEN [kind |-> "response", status |-> "Ok", body |-> "ForwarderInfo"]
                      ELSE [kind |-> "response", status |-> "InternalServerError", body |-> f]]

(* A replacement procedure that is not running. *)
NoAttempt(cur) ==
    [pc |-> "idle", cur |-> cur, prev |-> <<>>, a |-> <<>>, auth |-> None, ev |-> <<>>,
     res |-> [st |-> "none", addr |-> <<>>, msg |-> ""], run |-> 0, relay |-> "none",
     elapsed |-> 0, replacing |-> FALSE, pd |-> None]

---------------------------------------------------------------------------
(* Actions of the handler. *)

(* The handler as a request arrives. *)
Start(r) == [Idle EXCEPT !.pc = "connect", !.req = r]

(* A connect that returns the request's address once the channel exists. *)
channel_created_InputAddress(h, ok, n) ==
    IF ok THEN Provision(h, h.req.address)
    ELSE ConnectErr(h, "could not create secure channel")

(* connect, lines 117-118 and 134-135: create_secure_channel_impl has      *)
(* returned, Ok with the local address of the n-th channel, or Err.        *)
channel_created(h, ok, n) ==
    IF ok THEN Provision(h, try_address_to_multiaddr(Local(ChanNames[n]))[1])
    ELSE ConnectErr(h, "could not create secure channel")

(* Lines 47-97: the RemoteForwarder constructor has returned f. *)
forwarder_created(h, f, clone_ok) ==
    IF ~h.req.at_rust_node /\ f = "ok" /\ ~clone_ok
    THEN HardErr([h EXCEPT !.f = f], "could not clone context")
    ELSE Respond(h, f)

(* The relay the forwarding service holds once a constructor succeeded. *)
Relay(by, run, ev, alias) ==
    [by |-> by, run |-> run, route |-> ev[Len(ev)].route, alias |-> alias]

(* A CreateForwarder request arrives: lines 39-43 up to connect's first await. *)
CreateForwarder(r) ==
    /\ cf.pc \in {"idle", "done"}
    /\ nreq < MaxRequests
    /\ nreq' = nreq + 1
    /\ cf' = connect(Start(r))
    /\ UNCHANGED <<sessions, channels, nchan, rec, relays>>

(* The directory's answer to resolve_project arrives (line 110). *)
ProjectResolved(resp) ==
    /\ cf.pc = "resolve"
    /\ cf' = connect_resolved(cf, resp)
    /\ UNCHANGED <<sessions, channels, nchan, rec, relays, nreq>>

(* create_secure_channel_impl returns (lines 117-118, 134-135). *)
ChannelCreated(ok) ==
    /\ cf.pc = "channel"
    /\ nchan < Len(ChanNames)
    /\ cf' = channel_created(cf, ok, nchan + 1)
    /\ nchan' = IF ok THEN nchan + 1 ELSE nchan
    /\ channels' = IF ok THEN channels \cup {Local(ChanNames[nchan + 1])} ELSE channels
    /\ UNCHANGED <<sessions, rec, relays, nreq>>

(* The RemoteForwarder constructor returns (lines 47-97). *)
ForwarderCreated(f, clone_ok) ==
    /\ cf.pc = "relay"
    /\ cf' = forwarder_created(cf, f, clone_ok)
    /\ relays' = IF f = "ok" THEN relays \cup {Relay(0, nreq, cf.ev, cf.req.alias)} ELSE relays
    /\ IF RegistersSession(cf.req, f = "ok", clone_ok)
       THEN /\ sessions' = add(sessions, NewSession(cf))
            /\ rec' = Append(rec, NoAttempt(cf.conn.addr))
       ELSE UNCHANGED <<sessions, rec>>
    /\ UNCHANGED <<channels, nchan, nreq>>

---------------------------------------------------------------------------
(* The replacement procedure (lines 203-258) and replace_sec_chan. *)

Awaiting == {"lookup", "delete", "create", "relay"}

(* An attempt that reports every failure as one generic error. *)
Failed_Wrapped(t, msg) ==
    [t EXCEPT !.pc = "done", !.res = [st |-> "err", addr |-> <<>>, msg |-> "recovery failed"]]

(* The attempt ends with Err(msg) (lines 251-254). *)
Failed(t, msg) == [t EXCEPT !.pc = "done", !.res = [st |-> "err", addr |-> <<>>, msg |-> msg]]

(* Lines 237-243: the route of `a`, then the relay-creation request. *)
Reprovision(c, t, a) ==
    LET r == multiaddr_to_route(a) IN
    IF r = None THEN Failed(t, "invalid multiaddr: {a}")
    ELSE [t EXCEPT !.pc = "relay", !.a = a, !.relay = "sent",
                   !.ev = Append(@, RelayEv(IF c.alias # None THEN "create_static" ELSE "create",
                                            r[1], c.alias))]

(* A replace_sec_chan that creates the new channel without deleting the old. *)
replace_sec_chan_NoDelete(t, prev, addr, auth) ==
    [t EXCEPT !.pc = "create", !.a = addr, !.auth = auth, !.replacing = TRUE,
              !.ev = Append(@, CreateChanEv(addr, <<>>, vec(auth), Some(MAX_CONNECT_TIME)))]

(* replace_sec_chan up to its first await (lines 268-275). *)
replace_sec_chan(t, prev, addr, auth) ==
    LET a == multiaddr_to_addr(prev) IN
    IF a = None THEN Failed([t EXCEPT !.replacing = TRUE], "could not map to address: {prev}")
    ELSE [t EXCEPT !.pc = "delete", !.a = addr, !.auth = auth, !.replacing = TRUE,
                   !.ev = Append(@, DeleteChanEv(a[1]))]

(* What an exchange with the manager may yield: the exchange fails, the    *)
(* response cannot be decoded, or a response with a status and maybe a body *)
(* (which may itself not decode).                                          *)
Exchanges == {"send_err", "decode_err", "ok", "notok", "notok_body", "notok_bad_body"}

(* replace_sec_chan, lines 275-285: whether it goes on to create the channel. *)
DeleteSurvived(x) == x \in {"ok", "notok", "notok_body"}

replace_deleted(t, x) ==
    IF DeleteSurvived(x)
    THEN [t EXCEPT !.pc = "create",
                   !.ev = Append(@, CreateChanEv(t.a, <<>>, vec(t.auth), Some(MAX_CONNECT_TIME)))]
    ELSE Failed(t, IF x = "send_err" THEN "send_and_receive failed" ELSE "decode error")

(* A closure that rebuilds the channel without the captured identity. *)
replacement_NoIdentity(c, t) ==
    IF IsProject(c.addr)
    THEN IF c.cloud = None THEN Failed(t, "missing cloud address")
         ELSE [t EXCEPT !.pc = "lookup",
                        !.ev = Append(@, GetProjectEv(c.addr[1].val, c.cloud[1]))]
    ELSE IF matches(c.addr) THEN replace_sec_chan(t, t.prev, c.addr, None)
    ELSE Reprovision(c, t, c.addr)

(* A closure that replaces a channel whatever the address. *)
replacement_AlwaysReplaces(c, t) ==
    IF IsProject(c.addr)
    THEN IF c.cloud = None THEN Failed(t, "missing cloud address")
         ELSE [t EXCEPT !.pc = "lookup",
                        !.ev = Append(@, GetProjectEv(c.addr[1].val, c.cloud[1]))]
    ELSE replace_sec_chan(t, t.prev, c.addr, c.auth)

(* The closure up to its first await (lines 211-236). *)
replacement(c, t) ==
    IF IsProject(c.addr)
    THEN IF c.cloud = None THEN Failed(t, "missing cloud address")
         ELSE [t EXCEPT !.pc = "lookup",
                        !.ev = Append(@, GetProjectEv(c.addr[1].val, c.cloud[1]))]
    ELSE IF matches(c.addr) THEN replace_sec_chan(t, t.prev, c.addr, c.auth)
    ELSE Reprovision(c, t, c.addr)

(* A closure that authorizes the stored identity for a project's channel. *)
replacement_resolved_StoredIdentity(c, t, resp) ==
    LET pd == project_data(resp) IN
    IF pd = None
    THEN Failed(t, IF resp.st = "err" THEN "send_and_receive failed"
                   ELSE IF resp.st = "notok" THEN "failed to get project info"
                   ELSE "project has no identity")
    ELSE replace_sec_chan([t EXCEPT !.pd = pd], t.prev, pd[1].addr \o skip1(c.addr), c.auth)

(* Lines 219-221: the directory has answered. *)
replacement_resolved(c, t, resp) ==
    LET pd == project_data(resp) IN
    IF pd = None
    THEN Failed(t, IF resp.st = "err" THEN "send_and_receive failed"
                   ELSE IF resp.st = "notok" THEN "failed to get project info"
                   ELSE "project has no identity")
    ELSE replace_sec_chan([t EXCEPT !.pd = pd], t.prev, pd[1].addr \o skip1(c.addr),
                          Some(pd[1].id))

(* How long an exchange may take, in seconds. *)
Durations == {0, MAX_CONNECT_TIME}

(* A timeout that lets the future complete at any time. *)
InTime_NoDeadline(t, d) == TRUE

(* The future completes at `t.elapsed + d`, before the deadline. *)
InTime(t, d) == t.elapsed + d < MAX_RECOVERY_TIME

---------------------------------------------------------------------------
(* Actions of the replacement procedure of sessions[k]. *)

(* Invocations of replacement procedures so far, over all sessions. *)
RECURSIVE Invocations(_)
Invocations(r) == IF r = <<>> THEN 0 ELSE Head(r).run + Invocations(Tail(r))

(* A detector that runs the closure of the first session for every session. *)
Replace_SharedClosure(k) ==
    /\ rec[k].pc \in {"idle", "done"}
    /\ Invocations(rec) < MaxRecoveries
    /\ LET cur == IF rec[k].res.st = "ok" THEN rec[k].res.addr ELSE rec[k].cur
           t == [NoAttempt(cur) EXCEPT !.prev = cur, !.run = rec[k].run + 1]
       IN  rec' = [rec EXCEPT ![k] = replacement(sessions[1].repl, t)]
    /\ UNCHANGED <<cf, sessions, channels, nchan, relays, nreq>>

(* The failure detector invokes the procedure with the address it holds. *)
Replace(k) ==
    /\ rec[k].pc \in {"idle", "done"}
    /\ Invocations(rec) < MaxRecoveries
    /\ LET cur == IF rec[k].res.st = "ok" THEN rec[k].res.addr ELSE rec[k].cur
           t == [NoAttempt(cur) EXCEPT !.prev = cur, !.run = rec[k].run + 1]
       IN  rec' = [rec EXCEPT ![k] = replacement(sessions[k].repl, t)]
    /\ UNCHANGED <<cf, sessions, channels, nchan, relays, nreq>>

(* resolve_project's send_and_receive returns (line 172). *)
Resolved(k, resp, d) ==
    /\ rec[k].pc = "lookup"
    /\ InTime(rec[k], d)
    /\ rec' = [rec EXCEPT ![k] =
                 replacement_resolved(sessions[k].repl, [rec[k] EXCEPT !.elapsed = @ + d], resp)]
    /\ UNCHANGED <<cf, sessions, channels, nchan, relays, nreq>>

(* The manager answers the delete request (line 275). *)
Deleted(k, x, d) ==
    /\ rec[k].pc = "delete"
    /\ InTime(rec[k], d)
    /\ channels' = IF x = "ok" THEN channels \ {rec[k].ev[Len(rec[k].ev)].route[1]} ELSE channels
    /\ rec' = [rec EXCEPT ![k] = replace_deleted([rec[k] EXCEPT !.elapsed = @ + d], x)]
    /\ UNCHANGED <<cf, sessions, nchan, relays, nreq>>

(* The manager answers the create request (lines 286-297). *)
Created(k, x, d) ==
    /\ rec[k].pc = "create"
    /\ nchan < Len(ChanNames)
    /\ InTime(rec[k], d)
    /\ LET t == [rec[k] EXCEPT !.elapsed = @ + d] IN
       IF x = "ok"
       THEN LET a == Local(ChanNames[nchan + 1]) IN
            /\ nchan' = nchan + 1
            /\ channels' = channels \cup {a}
            /\ rec' = [rec EXCEPT ![k] =
                         Reprovision(sessions[k].repl, t, try_address_to_multiaddr(a)[1])]
       ELSE /\ rec' = [rec EXCEPT ![k] =
                         Failed(t, IF x = "send_err" THEN "send_and_receive failed"
                                   ELSE IF x \in {"decode_err", "notok_bad_body"} THEN "decode error"
                                   ELSE "error creating secure channel")]
            /\ UNCHANGED <<channels, nchan>>
    /\ UNCHANGED <<cf, sessions, relays, nreq>>

(* The forwarding service handles the relay-creation request of attempt k. *)
Registered(k, f) ==
    /\ rec[k].relay = "sent"
    /\ rec' = [rec EXCEPT ![k].relay = f]
    /\ relays' = IF f = "ok"
                 THEN relays \cup {Relay(k, rec[k].run, rec[k].ev, sessions[k].repl.alias)}
                 ELSE relays
    /\ UNCHANGED <<cf, sessions, channels, nchan, nreq>>

(* An attempt that writes its new address into the registered session. *)
Reprovisioned_UpdatesSession(k, d) ==
    /\ rec[k].pc = "relay"
    /\ rec[k].relay \in RelayResults
    /\ InTime(rec[k], d)
    /\ rec' = [rec EXCEPT ![k] =
                 IF rec[k].relay = "ok"
                 THEN [rec[k] EXCEPT !.pc = "done", !.elapsed = @ + d,
                                     !.res = [st |-> "ok", addr |-> rec[k].a, msg |-> ""]]
                 ELSE Failed([rec[k] EXCEPT !.elapsed = @ + d], rec[k].relay)]
    /\ sessions' = IF rec[k].relay = "ok" THEN [sessions EXCEPT ![k].addr = rec[k].a]
                   ELSE sessions
    /\ UNCHANGED <<cf, channels, nchan, relays, nreq>>

(* The RemoteForwarder constructor returns (lines 239-244, 255). *)
Reprovisioned(k, d) ==
    /\ rec[k].pc = "relay"
    /\ rec[k].relay \in RelayResults
    /\ InTime(rec[k], d)
    /\ rec' = [rec EXCEPT ![k] =
                 IF rec[k].relay = "ok"
                 THEN [rec[k] EXCEPT !.pc = "done", !.elapsed = @ + d,
                                     !.res = [st |-> "ok", addr |-> rec[k].a, msg |-> ""]]
                 ELSE Failed([rec[k] EXCEPT !.elapsed = @ + d], rec[k].relay)]
    /\ UNCHANGED <<cf, sessions, channels, nchan, relays, nreq>>

(* MAX_RECOVERY_TIME passes before the future completes (lines 246-250). *)
Timeout(k) ==
    /\ rec[k].pc \in Awaiting
    /\ rec' = [rec EXCEPT ![k] = Failed([rec[k] EXCEPT !.elapsed = MAX_RECOVERY_TIME], "timeout")]
    /\ UNCHANGED <<cf, sessions, channels, nchan, relays, nreq>>

---------------------------------------------------------------------------
(* The node manager serving CreateForwarder requests. *)

Init ==
    /\ cf = Idle
    /\ sessions = <<>>
    /\ channels = {}
    /\ nchan = 0
    /\ rec = <<>>
    /\ relays = {}
    /\ nreq = 0

Next ==
    \/ \E r \in Requests : CreateForwarder(r)
    \/ \E resp \in ProjectResponses : ProjectResolved(resp)
    \/ \E ok \in BOOLEAN : ChannelCreated(ok)
    \/ \E f \in RelayResults, clone_ok \in BOOLEAN : ForwarderCreated(f, clone_ok)

Spec == Init /\ [][Next]_vars

---------------------------------------------------------------------------
(* The replacement procedure of a registered session, run by the failure   *)
(* detector after the handler has returned.  It starts in a state the      *)
(* handler leaves behind when it registers a session: the request r, the   *)
(* directory's answer resp where one was asked for, channel and relay      *)
(* created, context cloned.                                                *)

AwaitingRelay(r, resp) ==
    LET h0 == connect(Start(r))
        h1 == IF h0.pc = "resolve" THEN connect_resolved(h0, resp) ELSE h0
    IN  IF h1.pc = "channel" THEN channel_created(h1, TRUE, 1) ELSE h1

InitRecovery ==
    \E r \in Requests, resp \in ProjectResponses :
        LET h == AwaitingRelay(r, resp)
            chan == "create_secure_channel" \in Ops(h.ev)
        IN  /\ h.pc = "relay"
            /\ RegistersSession(r, TRUE, TRUE)
            /\ cf = forwarder_created(h, "ok", TRUE)
            /\ sessions = add(<<>>, NewSession(h))
            /\ rec = <<NoAttempt(h.conn.addr)>>
            /\ channels = IF chan THEN {Local(ChanNames[1])} ELSE {}
            /\ nchan = IF chan THEN 1 ELSE 0
            /\ relays = {Relay(0, 1, h.ev, r.alias)}
            /\ nreq = 1

NextRecovery ==
    \/ \E k \in DOMAIN sessions : Replace(k)
    \/ \E k \in DOMAIN sessions, resp \in ProjectResponses, d \in Durations : Resolved(k, resp, d)
    \/ \E k \in DOMAIN sessions, x \in Exchanges, d \in Durations : Deleted(k, x, d)
    \/ \E k \in DOMAIN sessions, x \in Exchanges, d \in Durations : Created(k, x, d)
    \/ \E k \in DOMAIN sessions, f \in RelayResults : Registered(k, f)
    \/ \E k \in DOMAIN sessions, d \in Durations : Reprovisioned(k, d)
    \/ \E k \in DOMAIN sessions : Timeout(k)

SpecRecovery == InitRecovery /\ [][NextRecovery]_vars

---------------------------------------------------------------------------
(* The node once a session is registered and a further request arrives:    *)
(* the handler serves the request while the failure detector runs the      *)
(* replacement procedures of the registered sessions, each at its own      *)
(* pace.  The first request has been served to its end (its channel is the *)
(* first one created); the second has just been passed to connect.         *)

R_SEC ==
    [address |-> A_SEC, alias |-> None, at_rust_node |-> FALSE,
     authorized |-> Some("ID1"), cloud_addr |-> None]
R_PROJ ==
    [address |-> A_PROJ, alias |-> Some("al"), at_rust_node |-> FALSE,
     authorized |-> None, cloud_addr |-> Some(CLOUD)]
R_NODE ==
    [address |-> A_SEC_IP, alias |-> Some("al"), at_rust_node |-> TRUE,
     authorized |-> None, cloud_addr |-> None]

(* The pairs (first request, second request) the node is started with. *)
NodeScenarios == {<<R_SEC, R_PROJ>>, <<R_SEC, R_NODE>>}

(* The directory's answer to the first request, where it asked. *)
P_FIRST == [st |-> "ok", addr |-> P_ROUTE, id |-> Some("ID9")]

InitNode ==
    \E sc \in NodeScenarios :
        LET h == AwaitingRelay(sc[1], P_FIRST) IN
        /\ h.pc = "relay"
        /\ RegistersSession(sc[1], TRUE, TRUE)
        /\ sessions = add(<<>>, NewSession(h))
        /\ rec = <<NoAttempt(h.conn.addr)>>
        /\ channels = {Local(ChanNames[1])}
        /\ nchan = 1
        /\ relays = {Relay(0, 1, h.ev, sc[1].alias)}
        /\ nreq = 2
        /\ cf = connect(Start(sc[2]))

NextNode ==
    \/ \E resp \in ProjectResponses : ProjectResolved(resp)
    \/ \E ok \in BOOLEAN : ChannelCreated(ok)
    \/ \E f \in RelayResults, clone_ok \in BOOLEAN : ForwarderCreated(f, clone_ok)
    \/ \E k \in DOMAIN sessions : Replace(k)
    \/ \E k \in DOMAIN sessions, resp \in ProjectResponses, d \in Durations : Resolved(k, resp, d)
    \/ \E k \in DOMAIN sessions, x \in Exchanges, d \in Durations : Deleted(k, x, d)
    \/ \E k \in DOMAIN sessions, x \in Exchanges, d \in Durations : Created(k, x, d)
    \/ \E k \in DOMAIN sessions, f \in RelayResults : Registered(k, f)
    \/ \E k \in DOMAIN sessions, d \in Durations : Reprovisioned(k, d)
    \/ \E k \in DOMAIN sessions : Timeout(k)

SpecNode == InitNode /\ [][NextNode]_vars

---------------------------------------------------------------------------
(* The vocabulary of the properties below, stated on addresses and on the  *)
(* recorded requests rather than through the operators of the handler.     *)

ProjectPrefixed(ma) == Len(ma) >= 1 /\ ma[1].code = "project"

SecurePattern(ma) ==
    /\ Len(ma) >= 3
    /\ ma[1].code \in {"dnsaddr", "ip4", "ip6"}
    /\ ma[2].code = "tcp"
    /\ ma[3].code = "secure"

PassThrough(ma) == ~ProjectPrefixed(ma) /\ ~SecurePattern(ma)

Lookups(ev) == Count(ev, {"get_project"})
ChannelCreations(ev) == Count(ev, {"create_secure_channel"})
ChannelDeletions(ev) == Count(ev, {"delete_secure_channel"})
RelayCreations(ev) == Count(ev, RelayKinds)

(* This step ends the handling of a request. *)
Completes == cf'.pc = "done" /\ (cf.pc # "done" \/ nreq' # nreq)

(* This step appends exactly one session, for the request being handled. *)
Gained ==
    /\ Len(sessions') = Len(sessions) + 1
    /\ SubSeq(sessions', 1, Len(sessions)) = sessions
    /\ sessions'[Len(sessions')].repl.addr = cf'.req.address

(* connect has returned Ok and its address maps to a route. *)
PassedResolution == cf.conn.st = "ok" /\ multiaddr_to_route(cf.conn.addr) # None

---------------------------------------------------------------------------
(* C1 as stated: the step that ends the handling of a request adds a       *)
(* session if and only if the relay was provisioned and at_rust_node was   *)
(* not set.  Refuted when the context cannot be cloned (line 60).          *)
C1_Original ==
    [][Completes => (Gained <=> (cf'.f = "ok" /\ ~cf'.req.at_rust_node))]_vars

(* C1, amended: the handling of a request adds a session if and only if    *)
(* the relay was provisioned, at_rust_node was not set and the handler     *)
(* went on to answer (the context for the replacement procedure could be   *)
(* cloned); with the flag set the registry is left as it was, and no other *)
(* step of the handler touches the registry.                               *)
C1_SessionIff ==
    [][/\ Completes =>
            /\ Gained <=> (cf'.f = "ok" /\ ~cf'.req.at_rust_node /\ cf'.res.kind = "response")
            /\ ~Gained => sessions' = sessions
            /\ cf'.req.at_rust_node => sessions' = sessions
       /\ ~Completes => sessions' = sessions]_vars

C1_Witness ==
    /\ cf.pc = "done" /\ cf.f = "ok" /\ ~cf.req.at_rust_node
    /\ Len(sessions) = nreq
    /\ sessions[Len(sessions)].repl.addr = cf.req.address

(* C2: a failure of connect, or of mapping its address to a route, makes   *)
(* the handler fail and no relay-creation request is issued; a failed      *)
(* relay creation is answered with status InternalServerError and the      *)
(* error's message; the handler never fails after a failed relay creation. *)
C2_ErrorPropagation ==
    cf.pc = "done" =>
        /\ (cf.conn.st = "err" \/ (cf.conn.st = "ok" /\ multiaddr_to_route(cf.conn.addr) = None))
              => (/\ cf.res.kind = "err" /\ RelayCreations(cf.ev) = 0 /\ cf.f = ""
                  /\ ~\E r \in relays : r.by = 0 /\ r.run = nreq)
        /\ cf.f \in RelayErrors
              => cf.res = [kind |-> "response", status |-> "InternalServerError", body |-> cf.f]
        /\ cf.res.kind = "err" => cf.f \notin RelayErrors

C2_Witness ==
    /\ cf.pc = "done" /\ cf.f \in RelayErrors
    /\ cf.res.kind = "response" /\ cf.res.status = "InternalServerError"

(* C6: for an address that neither starts with a project reference nor     *)
(* matches [host, tcp, secure] at index 0, the empty address included,     *)
(* connect returns the input address and asks for no project and no        *)
(* secure channel.                                                         *)
C6_PassThrough ==
    (cf.pc # "idle" /\ PassThrough(cf.req.address)) =>
        /\ cf.conn = [st |-> "ok", addr |-> cf.req.address, msg |-> ""]
        /\ Lookups(cf.ev) = 0
        /\ ChannelCreations(cf.ev) = 0

C6_Witness ==
    /\ cf.pc = "done" /\ PassThrough(cf.req.address) /\ cf.req.address # <<>>
    /\ cf.conn.st = "ok" /\ cf.f = "ok"

(* C7: for an address starting with a project reference, connect fails     *)
(* with "request has no cloud address" exactly when the request has no     *)
(* cloud address, whatever follows the first segment, and it has then      *)
(* issued no request at all.                                               *)
C7_MissingCloud ==
    (cf.pc # "idle" /\ ProjectPrefixed(cf.req.address)) =>
        /\ (cf.conn.st = "err" /\ cf.conn.msg = "request has no cloud address")
              <=> cf.req.cloud_addr = None
        /\ cf.req.cloud_addr = None => (cf.ev = <<>> /\ cf.pc = "done" /\ cf.res.kind = "err")

C7_Witness ==
    /\ cf.pc = "done" /\ ProjectPrefixed(cf.req.address) /\ Len(cf.req.address) > 1
    /\ cf.req.cloud_addr = None /\ cf.conn.msg = "request has no cloud address"

(* C8: when connect succeeds for a project-prefixed or [host, tcp, secure] *)
(* address, the address it returns is that of the secure channel it has    *)
(* just created, which the manager holds, and differs from the input.      *)
C8_ChannelAddress ==
    (cf.conn.st = "ok" /\ (ProjectPrefixed(cf.req.address) \/ SecurePattern(cf.req.address))) =>
        /\ nchan >= 1
        /\ ChannelCreations(cf.ev) = 1
        /\ Local(ChanNames[nchan]) \in channels
        /\ cf.conn.addr = <<Seg("service", ChanNames[nchan])>>
        /\ cf.conn.addr # cf.req.address

C8_Witness ==
    /\ cf.conn.st = "ok" /\ ProjectPrefixed(cf.req.address)
    /\ cf.conn.addr = <<Seg("service", "ch1")>>

(* C9 as stated: while a request with at_rust_node set is handled, no      *)
(* secure channel is created.  Refuted by [host, tcp, secure] and project  *)
(* addresses: connect does not read the flag.                              *)
C9_Original ==
    (cf.pc # "idle" /\ cf.req.at_rust_node) => ChannelCreations(cf.ev) = 0

(* C9, amended: a request with at_rust_node set registers no session, and  *)
(* it creates a secure channel exactly as a request without the flag does: *)
(* connect succeeds through a channel if and only if the address starts    *)
(* with a project reference or matches [host, tcp, secure]; only for other *)
(* addresses is no channel created.                                        *)
C9_FlagKeepsChannel ==
    (cf.pc # "idle" /\ cf.req.at_rust_node) =>
        /\ Len(sessions) < nreq
        /\ cf.conn.st = "ok" =>
              (ChannelCreations(cf.ev) = 1
                  <=> (ProjectPrefixed(cf.req.address) \/ SecurePattern(cf.req.address)))
        /\ PassThrough(cf.req.address) => ChannelCreations(cf.ev) = 0

C9_Witness ==
    /\ cf.pc = "done" /\ cf.req.at_rust_node /\ SecurePattern(cf.req.address)
    /\ cf.f = "ok" /\ ChannelCreations(cf.ev) = 1 /\ channels # {} /\ sessions = <<>>

(* C10: the relay constructor follows (flag, alias); a request that passes *)
(* resolution issues exactly one relay-creation request, over the route of *)
(* the address connect returned, and any other request issues none.        *)
C10_RelayKind ==
    cf.pc \in {"relay", "done"} =>
        IF PassedResolution
        THEN /\ RelayCreations(cf.ev) = 1
             /\ LET e == cf.ev[Len(cf.ev)] IN
                /\ e.route = multiaddr_to_route(cf.conn.addr)[1]
                /\ e.alias = cf.req.alias
                /\ e.op = CASE cf.req.at_rust_node /\ cf.req.alias # None
                                  -> "create_static_without_heartbeats"
                            [] cf.req.at_rust_node /\ cf.req.alias = None -> "create"
                            [] ~cf.req.at_rust_node /\ cf.req.alias # None -> "create_static"
                            [] OTHER -> "create"
        ELSE RelayCreations(cf.ev) = 0

C10_Witness ==
    /\ cf.pc = "done" /\ cf.req.at_rust_node /\ cf.req.alias # None /\ cf.f = "ok"
    /\ cf.ev[Len(cf.ev)].op = "create_static_without_heartbeats"
    /\ ChannelCreations(cf.ev) = 1

---------------------------------------------------------------------------
(* Properties of the replacement procedure, under SpecRecovery. *)

RelayOf(k) == {r \in relays : r.by = k /\ r.run = rec[k].run}

ProjectIds == {resp.id[1] : resp \in {x \in ProjectResponses : x.id # None}}

CreateEvents(ev) == {ev[i] : i \in {j \in 1..Len(ev) : ev[j].op = "create_secure_channel"}}

(* C3 as stated: an attempt that ends with "timeout" has left no relay     *)
(* registration behind.  Refuted when the deadline passes while the        *)
(* relay-creation request is with the forwarding service.                  *)
C3_Original ==
    \A k \in DOMAIN rec : rec[k].res.msg = "timeout" => RelayOf(k) = {}

(* C3, amended: an attempt that has not completed when MAX_RECOVERY_TIME   *)
(* expires ends with the "timeout" error, and an attempt that completed    *)
(* did so before the deadline; once it has ended it issues no further      *)
(* request, so that when the deadline passes before the relay-creation     *)
(* request is issued no relay is registered for the attempt, while a       *)
(* request already issued is not withdrawn.                                *)
C3_Timeout ==
    /\ [](\A k \in DOMAIN rec :
            LET t == rec[k] IN
            /\ t.elapsed <= MAX_RECOVERY_TIME
            /\ t.elapsed = MAX_RECOVERY_TIME <=> t.res.msg = "timeout"
            /\ t.res.msg = "timeout" => (t.pc = "done" /\ t.res.st = "err")
            /\ (t.res.msg = "timeout" /\ RelayCreations(t.ev) = 0) => RelayOf(k) = {}
            /\ RelayOf(k) # {} => RelayCreations(t.ev) = 1)
    /\ [][\A k \in DOMAIN rec :
            (rec[k].pc = "done" /\ rec'[k].run = rec[k].run)
                => (rec'[k].ev = rec[k].ev /\ rec'[k].res = rec[k].res)]_vars

C3_Witness ==
    \E k \in DOMAIN rec :
        /\ rec[k].res.msg = "timeout" /\ rec[k].elapsed = MAX_RECOVERY_TIME
        /\ Lookups(rec[k].ev) = 1 /\ ChannelCreations(rec[k].ev) = 1
        /\ RelayCreations(rec[k].ev) = 0 /\ RelayOf(k) = {}

(* C4: every invocation of replace_sec_chan that the deadline does not cut *)
(* short sends the create request, whatever became of the deletion.        *)
(* Refuted when the delete exchange fails or its response does not decode. *)
C4_Original ==
    \A k \in DOMAIN rec :
        (rec[k].replacing /\ rec[k].pc \in {"create", "relay", "done"}
            /\ rec[k].res.msg # "timeout")
        => ChannelCreations(rec[k].ev) = 1

(* C5 as stated: every create request of a recovery attempt authorizes the *)
(* identity the session stored at its creation.  Refuted by a project      *)
(* session, whose attempts authorize the identity the directory returned.  *)
C5_Original ==
    \A k \in DOMAIN rec : \A e \in CreateEvents(rec[k].ev) : e.auth = vec(get(sessions[k], IDENTITY))

(* C5, amended: the identity a session stored at its creation is that of   *)
(* the request, it is what the replacement procedure holds in every        *)
(* invocation, and every create request of an attempt of a                 *)
(* [host, tcp, secure] session authorizes exactly it; an attempt of a      *)
(* project session authorizes the identity its own lookup returned.        *)
C5_IdentityReused ==
    \A k \in DOMAIN rec :
        /\ get(sessions[k], IDENTITY) = cf.req.authorized
        /\ sessions[k].repl.auth = get(sessions[k], IDENTITY)
        /\ \A e \in CreateEvents(rec[k].ev) :
              IF ProjectPrefixed(sessions[k].repl.addr)
              THEN /\ rec[k].pd # None
                   /\ rec[k].pd[1].id \in ProjectIds
                   /\ e.auth = Some(<<rec[k].pd[1].id>>)
              ELSE e.auth = vec(cf.req.authorized)

C5_Witness ==
    \E k \in DOMAIN rec :
        /\ rec[k].run = 2 /\ SecurePattern(sessions[k].repl.addr)
        /\ get(sessions[k], IDENTITY) = Some("ID1")
        /\ \E e \in CreateEvents(rec[k].ev) : e.auth = Some(<<"ID1">>)

---------------------------------------------------------------------------
(* Properties of the registered session, under Spec. *)

(* The session the step has just appended. *)
Added == sessions'[Len(sessions')]

(* The identity of the secure channel created for the request handled. *)
ChannelAuth(ev) == (CHOOSE e \in CreateEvents(ev) : TRUE).auth

(* C11 as stated: the session a request registers holds the request's      *)
(* original address.  Refuted by every request whose address connect       *)
(* resolves through a secure channel.                                      *)
C11_Original ==
    [][Gained => Added.addr = cf'.req.address]_vars

(* C11, amended: the session a request registers is constructed with the   *)
(* address connect returned, which is the request's address only for a     *)
(* passthrough address and the local address of the created channel        *)
(* otherwise; the request's address is held by the replacement procedure   *)
(* alone.                                                                  *)
C11_ResolvedAddress ==
    [][Gained =>
          /\ Added.addr = cf'.conn.addr
          /\ Added.repl.addr = cf'.req.address
          /\ Added.addr = cf'.req.address <=> PassThrough(cf'.req.address)
          /\ ~PassThrough(cf'.req.address)
                => /\ multiaddr_to_addr(Added.addr) # None
                   /\ multiaddr_to_addr(Added.addr)[1] \in channels']_vars

C11_Witness ==
    /\ cf.pc = "done" /\ Len(sessions) = nreq /\ SecurePattern(cf.req.address)
    /\ sessions[Len(sessions)].addr = <<Seg("service", "ch1")>>
    /\ sessions[Len(sessions)].repl.addr = cf.req.address

(* C12 as stated: the session registered for a project address stores the  *)
(* identity the channel was authorized for, the project's.  Refuted: the   *)
(* session stores what the request carried.                                *)
C12_Original ==
    [][(Gained /\ ProjectPrefixed(cf'.req.address))
          => vec(get(Added, IDENTITY)) = ChannelAuth(cf'.ev)]_vars

(* C12, amended: the session registered for a project address stores the   *)
(* authorized identity of the request, and nothing when the request has    *)
(* none, whatever identity the directory returned; the project's identity  *)
(* only authorizes the channel.                                            *)
C12_RequestIdentity ==
    [][(Gained /\ ProjectPrefixed(cf'.req.address)) =>
          /\ get(Added, IDENTITY) = cf'.req.authorized
          /\ Added.repl.auth = cf'.req.authorized
          /\ \E i \in ProjectIds : ChannelAuth(cf'.ev) = Some(<<i>>)
          /\ cf'.req.authorized = None => Added.store = {}]_vars

C12_Witness ==
    /\ cf.pc = "done" /\ Len(sessions) = nreq /\ ProjectPrefixed(cf.req.address)
    /\ get(sessions[Len(sessions)], IDENTITY) = Some("ID1")
    /\ ChannelAuth(cf.ev) = Some(<<"ID9">>)

---------------------------------------------------------------------------
(* Properties of one recovery attempt, under SpecRecovery. *)

Rank(op) ==
    CASE op = "get_project" -> 0
      [] op = "delete_secure_channel" -> 1
      [] op = "create_secure_channel" -> 2
      [] OTHER -> 3

(* Lookup, then delete, then create, then relay, each at most once. *)
Ordered(ev) == \A i, j \in 1..Len(ev) : i < j => Rank(ev[i].op) < Rank(ev[j].op)

EventsOf(ev, ops) == {ev[i] : i \in {j \in 1..Len(ev) : ev[j].op \in ops}}

(* The local address of the channel the detector passed in. *)
PrevChannel(t) == multiaddr_to_addr(t.prev)[1]

(* C13: in an attempt that rebuilds a channel the delete request, for the  *)
(* previous resolved address, comes before the create request, which comes *)
(* before the relay-creation request; the relay request is issued by the   *)
(* step that receives the create response, over the route of the channel   *)
(* just created and never over the previous address, and that channel's    *)
(* address is the attempt's result.                                        *)
C13_RebuildOrder ==
    /\ [](\A k \in DOMAIN rec :
            LET t == rec[k] IN
            /\ Ordered(t.ev)
            /\ ChannelCreations(t.ev) = 1 => ChannelDeletions(t.ev) = 1
            /\ \A e \in EventsOf(t.ev, {"delete_secure_channel"}) : e.route = <<PrevChannel(t)>>
            /\ t.pc \in {"delete", "create"} => RelayCreations(t.ev) = 0
            /\ (t.replacing /\ RelayCreations(t.ev) = 1) =>
                  /\ ChannelCreations(t.ev) = 1
                  /\ \E a \in channels :
                        /\ a # PrevChannel(t)
                        /\ \A e \in EventsOf(t.ev, RelayKinds) : e.route = <<a>>
                        /\ t.res.st = "ok" => t.res.addr = <<Seg("service", a.a[1])>>
            /\ (t.replacing /\ t.res.st = "ok") => RelayCreations(t.ev) = 1)
    /\ [][\A k \in DOMAIN rec :
            (rec[k].replacing /\ RelayCreations(rec[k].ev) = 0 /\ RelayCreations(rec'[k].ev) = 1)
                => (rec[k].pc = "create" /\ nchan' = nchan + 1
                    /\ Local(ChanNames[nchan']) \in channels')]_vars

C13_Witness ==
    \E k \in DOMAIN rec :
        /\ rec[k].replacing /\ rec[k].res.st = "ok" /\ rec[k].run = 2
        /\ rec[k].prev = <<Seg("service", "ch2")>>
        /\ rec[k].res.addr = <<Seg("service", "ch3")>>
        /\ Len(rec[k].ev) = 3

AttemptErrors ==
    {"timeout", "send_and_receive failed", "decode error", "error creating secure channel",
     "failed to get project info", "project has no identity"} \cup RelayErrors

(* C14: an invocation issues at most one lookup, one delete, one create    *)
(* and one relay-creation request; an attempt that fails on the create     *)
(* response ends there, with "error creating secure channel" for a non-OK  *)
(* response, and issues no relay-creation request; the error of a failed   *)
(* relay creation, like any other, is the attempt's result as it is.       *)
C14_NoRetry ==
    /\ [](\A k \in DOMAIN rec :
            LET t == rec[k] IN
            /\ Lookups(t.ev) <= 1 /\ ChannelDeletions(t.ev) <= 1
            /\ ChannelCreations(t.ev) <= 1 /\ RelayCreations(t.ev) <= 1
            /\ t.res.msg = "error creating secure channel"
                  => /\ t.pc = "done" /\ t.res.st = "err"
                     /\ ChannelCreations(t.ev) = 1 /\ RelayCreations(t.ev) = 0
                     /\ RelayOf(k) = {}
            /\ t.res.st = "err" => t.res.msg \in AttemptErrors
            /\ (t.pc = "done" /\ t.relay \in RelayErrors /\ t.res.msg # "timeout")
                  => t.res = [st |-> "err", addr |-> <<>>, msg |-> t.relay]
            /\ t.res.msg \in RelayErrors => t.relay = t.res.msg)
    /\ [][\A k \in DOMAIN rec :
            (rec[k].pc = "create" /\ rec'[k].pc = "done")
                => (rec'[k].res.st = "err" /\ rec'[k].ev = rec[k].ev /\ rec'[k].run = rec[k].run
                    /\ UNCHANGED <<channels, nchan, relays>>)]_vars

C14_Witness ==
    \E k \in DOMAIN rec :
        /\ rec[k].pc = "done" /\ rec[k].res.msg = "error creating secure channel"
        /\ ChannelDeletions(rec[k].ev) = 1 /\ ChannelCreations(rec[k].ev) = 1
        /\ RelayCreations(rec[k].ev) = 0

(* C15: an attempt of a session whose address starts with a project        *)
(* reference first asks the manager for the project, with the session's    *)
(* cloud address; its delete request names the previous resolved address   *)
(* the detector passed in; its create request names the route this lookup  *)
(* returned extended with segments 1..end of the original address, and     *)
(* authorizes exactly the identity this lookup returned.                   *)
C15_ProjectRecovery ==
    \A k \in DOMAIN rec :
        LET t == rec[k]
            c == sessions[k].repl
        IN  (ProjectPrefixed(c.addr) /\ t.run >= 1) =>
                /\ Len(t.ev) >= 1
                /\ t.ev[1].op = "get_project"
                /\ t.ev[1].alias = Some(c.addr[1].val)
                /\ t.ev[1].ma = c.cloud[1]
                /\ t.run = 1 => t.prev = sessions[k].addr
                /\ Len(t.ev) >= 2 =>
                      /\ t.pd # None
                      /\ t.ev[2].op = "delete_secure_channel"
                      /\ t.ev[2].route = <<PrevChannel(t)>>
                /\ Len(t.ev) >= 3 =>
                      /\ t.ev[3].op = "create_secure_channel"
                      /\ t.ev[3].ma = t.pd[1].addr \o SubSeq(c.addr, 2, Len(c.addr))
                      /\ t.ev[3].auth = Some(<<t.pd[1].id>>)
                      /\ t.ev[3].timeout = Some(MAX_CONNECT_TIME)

C15_Witness ==
    \E k \in DOMAIN rec :
        /\ ProjectPrefixed(sessions[k].repl.addr) /\ Len(sessions[k].repl.addr) = 2
        /\ Len(rec[k].ev) >= 3
        /\ ChannelAuth(cf.ev) = Some(<<"ID9">>)
        /\ rec[k].ev[3].auth = Some(<<"ID8">>)
        /\ rec[k].ev[3].ma = P_ROUTE2 \o <<sessions[k].repl.addr[2]>>

(* C16: the session of a passthrough address holds that address; each      *)
(* invocation of its replacement procedure is passed that address, asks    *)
(* for no project, sends no delete and no create request, issues the       *)
(* relay-creation request over the route of the original address, and a    *)
(* successful invocation returns the original address.                     *)
C16_PassThroughRecovery ==
    \A k \in DOMAIN rec :
        LET t == rec[k]
            c == sessions[k].repl
        IN  PassThrough(c.addr) =>
                /\ sessions[k].addr = c.addr
                /\ ~cf.req.at_rust_node
                /\ Lookups(t.ev) = 0 /\ ChannelDeletions(t.ev) = 0 /\ ChannelCreations(t.ev) = 0
                /\ ~t.replacing
                /\ t.run >= 1 =>
                      /\ t.prev = c.addr
                      /\ t.pc \in {"relay", "done"}
                      /\ Len(t.ev) = 1
                      /\ t.ev[1].op = (IF c.alias # None THEN "create_static" ELSE "create")
                      /\ t.ev[1].route = multiaddr_to_route(c.addr)[1]
                      /\ t.ev[1].alias = c.alias
                      /\ t.res.st = "ok" => t.res.addr = c.addr
                      /\ t.res.st = "err" => t.res.msg \in {"timeout"} \cup RelayErrors
                /\ \A r \in RelayOf(k) : r.route = multiaddr_to_route(c.addr)[1]

C16_Witness ==
    \E k \in DOMAIN rec :
        /\ PassThrough(sessions[k].repl.addr) /\ sessions[k].repl.addr # <<>>
        /\ rec[k].run = 2 /\ rec[k].res.st = "ok"
        /\ rec[k].res.addr = sessions[k].repl.addr
        /\ RelayOf(k) # {} /\ channels = {}

(* C19: every registered session whose captured address starts with a      *)
(* project reference has a captured cloud address, so none of its          *)
(* attempts ends with "missing cloud address": each goes on to the lookup. *)
C19_CloudCaptured ==
    \A k \in DOMAIN sessions :
        ProjectPrefixed(sessions[k].repl.addr) =>
            /\ sessions[k].repl.cloud # None
            /\ rec[k].res.msg # "missing cloud address"
            /\ rec[k].run >= 1 => Lookups(rec[k].ev) = 1

C19_Witness ==
    \E k \in DOMAIN sessions :
        /\ ProjectPrefixed(sessions[k].repl.addr)
        /\ sessions[k].repl.cloud = Some(CLOUD)
        /\ rec[k].run = 2 /\ rec[k].pc = "done" /\ Lookups(rec[k].ev) = 1

---------------------------------------------------------------------------
(* C20, under Spec: the handler issues no delete request and removes no    *)
(* channel; when connect has created a channel and the request then fails, *)
(* by a failed relay creation or by an error of the handler, the channel   *)
(* is still held after the handler has returned, the failing step leaves   *)
(* the registry as it was, and no session and no replacement procedure     *)
(* holds the channel's address.                                            *)
C20_ChannelLeftBehind ==
    /\ [](/\ ChannelDeletions(cf.ev) = 0
          /\ (/\ cf.pc = "done" /\ cf.conn.st = "ok" /\ ChannelCreations(cf.ev) = 1
              /\ (cf.f \in RelayErrors \/ cf.res.kind = "err"))
                => /\ multiaddr_to_addr(cf.conn.addr) # None
                   /\ multiaddr_to_addr(cf.conn.addr)[1] \in channels
                   /\ \A k \in DOMAIN sessions :
                         sessions[k].addr # cf.conn.addr /\ rec[k].cur # cf.conn.addr)
    /\ [][/\ channels \subseteq channels'
          /\ (Completes /\ (cf'.f \in RelayErrors \/ cf'.res.kind = "err"))
                => (sessions' = sessions /\ rec' = rec)]_vars

C20_Witness ==
    /\ cf.pc = "done" /\ cf.f \in RelayErrors /\ ProjectPrefixed(cf.req.address)
    /\ ~cf.req.at_rust_node
    /\ ChannelCreations(cf.ev) = 1 /\ cf.conn.addr = <<Seg("service", "ch1")>>
    /\ Local("ch1") \in channels /\ sessions = <<>>

---------------------------------------------------------------------------
(* Properties of the node serving a request while sessions recover, under  *)
(* SpecNode.                                                               *)

(* The address the failure detector holds for sessions[j]. *)
Held(j) == IF rec[j].res.st = "ok" THEN rec[j].res.addr ELSE rec[j].cur

C18_Independent ==
    /\ [](\A k \in DOMAIN rec :
            LET t == rec[k]
                c == sessions[k].repl
            IN  /\ \A e \in EventsOf(t.ev, {"get_project"}) :
                      e.alias = Some(c.addr[1].val) /\ e.ma = c.cloud[1]
                /\ \A e \in EventsOf(t.ev, {"delete_secure_channel"}) :
                      /\ e.route = <<PrevChannel(t)>>
                      /\ \A j \in DOMAIN rec \ {k} : Held(j) # t.prev
                /\ \A e \in EventsOf(t.ev, {"create_secure_channel"}) :
                      IF ProjectPrefixed(c.addr)
                      THEN /\ t.pd # None
                           /\ e.ma = t.pd[1].addr \o SubSeq(c.addr, 2, Len(c.addr))
                           /\ e.auth = Some(<<t.pd[1].id>>)
                      ELSE /\ e.ma = c.addr
                           /\ e.auth = vec(get(sessions[k], IDENTITY))
                /\ \A e \in EventsOf(t.ev, RelayKinds) :
                      /\ e.alias = c.alias
                      /\ e.op = (IF c.alias # None THEN "create_static" ELSE "create")
                /\ (t.replacing /\ t.res.st = "ok") =>
                      /\ \A j \in DOMAIN rec \ {k} : Held(j) # t.res.addr
                      /\ \A e \in EventsOf(t.ev, RelayKinds) :
                            e.route = multiaddr_to_route(t.res.addr)[1]
                /\ \A r \in RelayOf(k) : r.alias = c.alias)
    /\ [][\A j, k \in DOMAIN rec : (j # k /\ rec'[k] # rec[k]) => rec'[j] = rec[j]]_vars

C18_Witness ==
    /\ Len(sessions) = 2
    /\ rec[1].pc = "create" /\ rec[2].pc = "delete"
    /\ rec[1].ev[2].auth = Some(<<"ID1">>) /\ rec[1].ev[2].ma = A_SEC
    /\ rec[2].ev[1].ma = CLOUD /\ rec[2].ev[2].route = <<Local("ch2")>>
    /\ rec[1].ev[1].route = <<Local("ch1")>>

====
